---------------------------- MODULE Spec2Model ----------------------------
(***************************************************************************)
(* Model of the trading-backoffice CSV loaders:                            *)
(*   NetPositionSnapshotLoader  (trading_backoffice/loader/                *)
(*                               net_position_loader.py)                   *)
(*   IntradayTradeLoader        (src/loader/intraday_trade_loader.py)      *)
(*                                                                         *)
(* A load is a fixed sequence of stages over one in-memory table (df).     *)
(* Each stage is one action; a stage that raises ends the load.            *)
(*                                                                         *)
(* Cell values.  A cell of the table is a record [k, s, n]:                *)
(*   k = "NaN"    float NaN (a missing cell as pandas.read_csv returns it) *)
(*   k = "None"   Python None                                              *)
(*   k = "str"    a str whose text s is not a number or DD-Mon-YYYY text   *)
(*   k = "lit"    a str whose text is a decimal literal; n is its value in *)
(*                units of 1/Scale, s = "int" (digits only, as in "10") or *)
(*                "dec" (with a decimal point, as in "100.5")              *)
(*   k = "date"   a str of the shape DD-Mon-YYYY; s is the three letters,  *)
(*                n = YYYY * 100 + DD                                      *)
(*   k = "int"    a Python / numpy int, n its value                        *)
(*   k = "float"  a Python float, n its value in units of 1/Scale          *)
(***************************************************************************)
EXTENDS Integers, Sequences, FiniteSets, TLC

\* round(price, 3): the number of decimals of a price
PriceDecimals == 3

\* resolution of decimal values in the model: one more digit than a price keeps
Scale == 10 ^ (PriceDecimals + 1)

\* one unit of the last kept decimal (0.001), in units of 1/Scale
Milli == Scale \div (10 ^ PriceDecimals)

\* largest number of rows of a file of the merge family
MaxRows == 3

---------------------------------------------------------------------------
(* Cells *)

NaN == [k |-> "NaN", s |-> "", n |-> 0]

None == [k |-> "None", s |-> "", n |-> 0]

Str(t) == [k |-> "str", s |-> t, n |-> 0]

\* the text of the integer i, e.g. "10"
IntText(i) == [k |-> "lit", s |-> "int", n |-> i * Scale]

\* the text of a decimal number with a point, v in units of 1/Scale, e.g. "100.5"
DecText(v) == [k |-> "lit", s |-> "dec", n |-> v]

\* the text DD-Mon-YYYY
DateText(d, mon, y) == [k |-> "date", s |-> mon, n |-> y * 100 + d]

IntV(i) == [k |-> "int", s |-> "", n |-> i]

FloatV(v) == [k |-> "float", s |-> "", n |-> v]

\* bool(v) of Python
Truthy(c) ==
    CASE c.k = "None" -> FALSE
      [] c.k = "str" -> c.s # ""
      [] c.k = "int" -> c.n # 0
      [] c.k = "float" -> c.n # 0
      [] OTHER -> TRUE

\* pandas.isna(v) of a scalar
IsNa(c) == c.k \in {"NaN", "None"}

---------------------------------------------------------------------------
(* Text operations, given by their effect on the texts the inputs use *)

\* str.strip()
Strip(t) ==
    CASE t = " " -> ""
      [] t = " bse" -> "bse"
      [] t = "NSE " -> "NSE"
      [] OTHER -> t

\* str.upper()
Upper(t) ==
    CASE t = "nan" -> "NAN"
      [] t = "bse" -> "BSE"
      [] t = "bsx" -> "BSX"
      [] t = "cash" -> "CASH"
      [] t = "ce" -> "CE"
      [] t = "none" -> "NONE"
      [] t = "abc" -> "ABC"
      [] t = "Jan" -> "JAN"
      [] t = "Feb" -> "FEB"
      [] t = "Xyz" -> "XYZ"
      [] OTHER -> t

\* str.lower()
Lower(t) ==
    CASE t = "NAN" -> "nan"
      [] t = "NONE" -> "none"
      [] t = "BSE" -> "bse"
      [] t = "BSX" -> "bsx"
      [] t = "CASH" -> "cash"
      [] t = "CE" -> "ce"
      [] t = "ABC" -> "abc"
      [] OTHER -> t

\* str.startswith(p) for the prefixes the loaders test
StartsWith(t, p) ==
    CASE p = "FUT" -> t \in {"FUT", "FUTIDX", "FUTSTK"}
      [] p = "OPT" -> t \in {"OPT", "OPTIDX", "OPTSTK"}
      [] OTHER -> FALSE

\* the texts pandas.read_csv reads as a missing value (its default na_values)
PandasNaValues ==
    {"", "#N/A", "#N/A N/A", "#NA", "-1.#IND", "-1.#QNAN", "-NaN", "-nan",
     "1.#IND", "1.#QNAN", "<NA>", "N/A", "NA", "NULL", "NaN", "None", "n/a",
     "nan", "null"}

\* Series.str.strip() of one cell
StripCell(c) == IF c.k = "str" THEN Str(Strip(c.s)) ELSE c

\* Series.str.upper() of one cell
UpperCell(c) == IF c.k = "str" THEN Str(Upper(c.s)) ELSE c

---------------------------------------------------------------------------
(* Numbers *)

\* |x|
Abs(x) == IF x < 0 THEN -x ELSE x

(* IEEE 754 doubles.  A Python float or numpy float64 is a record [s, m, e] *)
(* of value s * m * 2^e: s = 1 or -1, m a natural number below 2^53 held as *)
(* a sequence of base-Limb digits, lowest first, without leading zeros      *)
(* (<<>> is 0).  Every operation rounds to nearest, ties to even.           *)

\* binary digits of the significand of a double
MantissaBits == 53

\* binary digits of one digit of a natural number
LimbBits == 15

Limb == 2 ^ LimbBits

\* binary digits a dividend is extended by before a division
GuardBits == 5 * LimbBits

RECURSIVE Pow2(_)
Pow2(k) == IF k = 0 THEN 1 ELSE 2 * Pow2(k - 1)

\* the digits of x without leading zeros
RECURSIVE BNorm(_)
BNorm(x) ==
    IF x = <<>> THEN <<>>
    ELSE IF x[Len(x)] = 0 THEN BNorm(SubSeq(x, 1, Len(x) - 1))
    ELSE x

\* the digits of the natural number n
RECURSIVE BFromInt(_)
BFromInt(n) == IF n = 0 THEN <<>> ELSE <<n % Limb>> \o BFromInt(n \div Limb)

\* the natural number of the digits x
RECURSIVE BToInt(_)
BToInt(x) == IF x = <<>> THEN 0 ELSE Head(x) + Limb * BToInt(Tail(x))

\* x * c + carry for 0 <= c, carry < Limb
RECURSIVE BMulCarry(_, _, _)
BMulCarry(x, c, carry) ==
    IF x = <<>> THEN (IF carry = 0 THEN <<>> ELSE <<carry>>)
    ELSE <<(Head(x) * c + carry) % Limb>>
         \o BMulCarry(Tail(x), c, (Head(x) * c + carry) \div Limb)

BMulSmall(x, c) == BNorm(BMulCarry(x, c, 0))

\* quotient q and remainder r of x by c, 0 < c < Limb (q with leading zeros)
RECURSIVE BDivRem(_, _)
BDivRem(x, c) ==
    IF x = <<>> THEN [q |-> <<>>, r |-> 0]
    ELSE LET hi == BDivRem(Tail(x), c)
             cur == hi.r * Limb + Head(x)
         IN  [q |-> <<cur \div c>> \o hi.q, r |-> cur % c]

RECURSIVE BAddCarry(_, _, _)
BAddCarry(x, y, carry) ==
    IF x = <<>> /\ y = <<>> THEN (IF carry = 0 THEN <<>> ELSE <<carry>>)
    ELSE LET a == IF x = <<>> THEN 0 ELSE Head(x)
             b == IF y = <<>> THEN 0 ELSE Head(y)
         IN  <<(a + b + carry) % Limb>>
             \o BAddCarry(IF x = <<>> THEN <<>> ELSE Tail(x),
                          IF y = <<>> THEN <<>> ELSE Tail(y),
                          (a + b + carry) \div Limb)

BAdd(x, y) == BAddCarry(x, y, 0)

\* x - y - borrow for x >= y + borrow (with leading zeros)
RECURSIVE BSubBorrow(_, _, _)
BSubBorrow(x, y, borrow) ==
    IF x = <<>> THEN <<>>
    ELSE LET b == (IF y = <<>> THEN 0 ELSE Head(y)) + borrow
         IN  <<(Head(x) - b + Limb) % Limb>>
             \o BSubBorrow(Tail(x), IF y = <<>> THEN <<>> ELSE Tail(y),
                           IF Head(x) < b THEN 1 ELSE 0)

BSub(x, y) == BNorm(BSubBorrow(x, y, 0))

\* x < y, for x and y without leading zeros
RECURSIVE BLess(_, _)
BLess(x, y) ==
    IF Len(x) # Len(y) THEN Len(x) < Len(y)
    ELSE IF x = <<>> THEN FALSE
    ELSE IF x[Len(x)] # y[Len(y)] THEN x[Len(x)] < y[Len(y)]
    ELSE BLess(SubSeq(x, 1, Len(x) - 1), SubSeq(y, 1, Len(y) - 1))

\* number of binary digits of n, 0 <= n < Limb
RECURSIVE BitsOf(_)
BitsOf(n) == IF n = 0 THEN 0 ELSE 1 + BitsOf(n \div 2)

\* number of binary digits of x
BitLen(x) == IF x = <<>> THEN 0 ELSE LimbBits * (Len(x) - 1) + BitsOf(x[Len(x)])

\* x * 2^k
BShl(x, k) ==
    IF x = <<>> THEN <<>>
    ELSE [i \in 1..(k \div LimbBits) |-> 0] \o BMulSmall(x, Pow2(k % LimbBits))

\* floor(x / 2^k)
BShr(x, k) ==
    IF k \div LimbBits >= Len(x) THEN <<>>
    ELSE BNorm(BDivRem(SubSeq(x, k \div LimbBits + 1, Len(x)), Pow2(k % LimbBits)).q)

\* x is not a multiple of 2^k
BLowBits(x, k) ==
    \/ \E i \in 1..(k \div LimbBits) : i <= Len(x) /\ x[i] # 0
    \/ k \div LimbBits < Len(x) /\ x[k \div LimbBits + 1] % Pow2(k % LimbBits) # 0

BOdd(x) == x # <<>> /\ Head(x) % 2 = 1

\* x / 2^k rounded to the nearest integer, ties to even
BShrRound(x, k) ==
    IF k = 0 THEN x
    ELSE LET q == BShr(x, k)
             half == BOdd(BShr(x, k - 1))
         IN  IF half /\ (BLowBits(x, k - 1) \/ BOdd(q)) THEN BAdd(q, <<1>>) ELSE q

FZero == [s |-> 1, m |-> <<>>, e |-> 0]

\* the double nearest to s * m * 2^e
FRound(s, m, e) ==
    IF m = <<>> THEN FZero
    ELSE IF BitLen(m) <= MantissaBits THEN [s |-> s, m |-> m, e |-> e]
    ELSE [s |-> s, m |-> BShrRound(m, BitLen(m) - MantissaBits),
          e |-> e + BitLen(m) - MantissaBits]

Sign(i) == IF i < 0 THEN -1 ELSE 1

\* x * c for a double x and an int c below Limb, as a float64 product
FMulInt(x, c) == FRound(x.s * Sign(c), BMulSmall(x.m, c * Sign(c)), x.e)

\* x / c for a double x and an int c # 0 below Limb: the quotient
\* is taken to GuardBits more bits, with one more bit for a remainder
FDivInt(x, c) ==
    LET d == BDivRem(BShl(x.m, GuardBits), c * Sign(c))
    IN  FRound(x.s * Sign(c),
               BAdd(BMulSmall(BNorm(d.q), 2), IF d.r = 0 THEN <<>> ELSE <<1>>),
               x.e - GuardBits - 1)

\* x + y of two doubles
FAdd(x, y) ==
    IF x.m = <<>> THEN y
    ELSE IF y.m = <<>> THEN x
    ELSE LET e == IF x.e < y.e THEN x.e ELSE y.e
             a == BShl(x.m, x.e - e)
             b == BShl(y.m, y.e - e)
         IN  IF x.s = y.s THEN FRound(x.s, BAdd(a, b), e)
             ELSE IF a = b THEN FZero
             ELSE IF BLess(a, b) THEN FRound(y.s, BSub(b, a), e)
             ELSE FRound(x.s, BSub(a, b), e)

\* the double of the decimal v / Scale: float(text), astype(float)
Dbl(v) == FDivInt([s |-> Sign(v), m |-> BFromInt(v * Sign(v)), e |-> 0], Scale)

\* x rounded to the nearest integer, ties to even, for a double x
Rint(x) ==
    x.s * BToInt(IF x.e >= 0 THEN BShl(x.m, x.e) ELSE BShrRound(x.m, -x.e))

\* Python's round(x, 3) of a float x, in thousandths: the multiple of 0.001
\* nearest to the value of x, ties to even
PyRound(x) == Rint([x EXCEPT !.m = BMulSmall(x.m, 10 ^ PriceDecimals)])

\* numpy.float64.__round__(x, 3), in thousandths: rint(x * 1000.0)
NpRound(x) == Rint(FMulInt(x, 10 ^ PriceDecimals))

\* round(x, 3) of the float x = float(text of v / Scale); result in 1/Scale
Round3(v) == Milli * PyRound(Dbl(v))

\* int(str): [ok, v]
PyInt(c) ==
    IF c.k = "lit" /\ c.s = "int"
    THEN [ok |-> TRUE, v |-> c.n \div Scale]
    ELSE IF c.k = "int" THEN [ok |-> TRUE, v |-> c.n]
    ELSE [ok |-> FALSE, v |-> 0]

\* float(str): [ok, nan, v], v in units of 1/Scale
PyFloat(c) ==
    CASE c.k = "lit" -> [ok |-> TRUE, nan |-> FALSE, v |-> c.n]
      [] c.k = "float" -> [ok |-> TRUE, nan |-> FALSE, v |-> c.n]
      [] c.k = "int" -> [ok |-> TRUE, nan |-> FALSE, v |-> c.n * Scale]
      [] c.k = "str" /\ Lower(c.s) = "nan" -> [ok |-> TRUE, nan |-> TRUE, v |-> 0]
      [] OTHER -> [ok |-> FALSE, nan |-> FALSE, v |-> 0]

\* int(x) of a float x in units of 1/Scale: truncation towards zero
TruncInt(v) == IF v >= 0 THEN v \div Scale ELSE -((-v) \div Scale)

---------------------------------------------------------------------------
(* Dates *)

\* %b of strptime: the month of an (upper-cased) English abbreviation, 0 if none
MonthIndex(t) ==
    CASE t = "JAN" -> 1 [] t = "FEB" -> 2 [] t = "MAR" -> 3 [] t = "APR" -> 4
      [] t = "MAY" -> 5 [] t = "JUN" -> 6 [] t = "JUL" -> 7 [] t = "AUG" -> 8
      [] t = "SEP" -> 9 [] t = "OCT" -> 10 [] t = "NOV" -> 11 [] t = "DEC" -> 12
      [] OTHER -> 0

IsLeap(y) == (y % 4 = 0 /\ y % 100 # 0) \/ y % 400 = 0

DaysIn(m, y) ==
    IF m = 2 THEN (IF IsLeap(y) THEN 29 ELSE 28)
    ELSE IF m \in {4, 6, 9, 11} THEN 30 ELSE 31

\* DATE_REGEX.match(value): ^\d{2}-[A-Za-z]{3}-\d{4}$
MatchesDateRegex(c) == c.k = "date"

\* datetime.strptime(value.upper(), "%d-%b-%Y") returns (does not raise)
StrptimeOk(c) ==
    /\ c.k = "date"
    /\ LET d == c.n % 100
           y == c.n \div 100
           m == MonthIndex(Upper(c.s))
       IN  m >= 1 /\ y >= 1 /\ d >= 1 /\ d <= DaysIn(m, y)

\* _parse_date: the exception it ends with ("ok": none)
ParseDate(c) ==
    IF ~MatchesDateRegex(c) THEN "LoadError"
    ELSE IF ~StrptimeOk(c) THEN "ValueError"
    ELSE "ok"

---------------------------------------------------------------------------
(* Tables: [cols, rows], each row a function from cols to cells *)

EQ_ALIASES == {"EQ", "EQUITY", "CASH"}

ALLOWED_EXCHANGES == {"NSE", "BSE"}

ALLOWED_INSTRUMENTS == {"EQ", "FUT", "FUTIDX", "FUTSTK", "OPT", "OPTIDX", "OPTSTK"}

SENSEX_ALIASES == {"BSX", "BSE", "BSXOPT", "SENSEX"}

BANKEX_ALIASES == {"BKX", "BKXOPT", "BANKEX"}

UPPER_COLUMNS ==
    {"Broker_Id", "Sheet", "Strategy", "Exchange", "Instrument", "Symbol", "Opt_Type"}

NetColumns ==
    {"Broker_Id", "Sheet", "Strategy", "Exchange", "Instrument", "Symbol",
     "Expiry", "Strike", "Opt_Type", "Net_Qty", "Avg_Price", "Carry_Date"}

IntradayColumns ==
    {"Broker_Id", "Sheet", "Strategy", "Exchange", "Instrument", "Symbol",
     "Expiry", "Strike", "Opt_Type", "Buy_Qty", "Buy_Rate", "Sell_Qty",
     "Sell_Rate", "Net_Qty", "Trade_Date"}

\* x in S for a cell x and a set S of texts (Series.isin, `in`)
In(c, S) == c.k = "str" /\ c.s \in S

\* the first exception of a row loop: errs[i] is what row i raises
FirstError(errs) ==
    IF \A i \in DOMAIN errs : errs[i] = "ok" THEN "ok"
    ELSE LET i == CHOOSE j \in DOMAIN errs :
                     errs[j] # "ok" /\ \A h \in DOMAIN errs : h < j => errs[h] = "ok"
         IN  errs[i]

\* pd.read_csv(path, dtype=str): every cell a str, or NaN where the text is missing
ReadCell(c) == IF c.k = "str" /\ c.s \in PandasNaValues THEN NaN ELSE c

ReadCsv(f) ==
    [f EXCEPT !.rows = [i \in DOMAIN f.rows |->
                           [c \in DOMAIN f.rows[i] |-> ReadCell(f.rows[i][c])]]]

\* Series.astype(str) of one cell
AsStr(c) ==
    CASE c.k = "NaN" -> Str("nan")
      [] c.k = "None" -> Str("None")
      [] c.k = "int" -> IntText(c.n)
      [] c.k = "float" -> DecText(c.n)
      [] OTHER -> c

\* _basic_normalization of one row
NormalizeRow(r) ==
    [c \in DOMAIN r |->
        IF c \in UPPER_COLUMNS THEN UpperCell(StripCell(AsStr(r[c])))
        ELSE StripCell(AsStr(r[c]))]

BasicNormalization(df) ==
    [df EXCEPT !.rows = [i \in DOMAIN df.rows |-> NormalizeRow(df.rows[i])]]

\* _validate_required_columns
ValidateRequiredColumns(df, required) ==
    IF required \ df.cols # {} THEN "LoadError" ELSE "ok"

\* _validate_carry_date / _validate_trade_date on the date column col
ValidateFileDate(df, col) ==
    LET vals == {df.rows[i][col] : i \in DOMAIN df.rows}
    IN  IF Cardinality(vals) # 1 THEN "LoadError"
        ELSE ParseDate(CHOOSE v \in vals : TRUE)

\* _validate_exchange
ValidateExchange(df) ==
    IF \E i \in DOMAIN df.rows : ~In(df.rows[i].Exchange, ALLOWED_EXCHANGES)
    THEN "LoadError" ELSE "ok"

\* _validate_expiry_format, one row
ExpiryFormatRow(r) ==
    IF In(r.Instrument, EQ_ALIASES)
    THEN (IF Truthy(r.Expiry) /\ r.Expiry # Str("nan") THEN "LoadError" ELSE "ok")
    ELSE IF ~Truthy(r.Expiry) \/ r.Expiry = Str("nan") THEN "LoadError"
    ELSE ParseDate(r.Expiry)

ValidateExpiryFormat(df) ==
    FirstError([i \in DOMAIN df.rows |-> ExpiryFormatRow(df.rows[i])])


---------------------------------------------------------------------------
(* Canonicalization *)

\* BSE_SYMBOL_MAP.items(), in the order of the dict
BSE_SYMBOL_MAP ==
    <<[canonical |-> "SENSEX", aliases |-> SENSEX_ALIASES],
      [canonical |-> "BANKEX", aliases |-> BANKEX_ALIASES]>>

\* mask of one pass of the loop, for one row
BseMask(r, aliases) == r.Exchange = Str("BSE") /\ In(r.Symbol, aliases)

\* CanonBsePassRow, with the instrument of an index row left as the file has it
CanonBsePassRowSymbolOnly(r, canonical, aliases) ==
    IF BseMask(r, aliases) THEN [r EXCEPT !["Symbol"] = Str(canonical)] ELSE r

\* the assignments of one pass of the loop of _canonicalize_bse_symbols, one
\* row (both loaders)
CanonBsePassRow(r, canonical, aliases) ==
    IF BseMask(r, aliases)
    THEN [r EXCEPT
            !["Symbol"] = Str(canonical),
            !["Instrument"] =
                IF In(@, {"IO", "OPT", "OPTIDX"}) THEN Str("OPTIDX")
                ELSE IF In(@, {"FUT", "FUTIDX"}) THEN Str("FUTIDX")
                ELSE @]
    ELSE r

\* one pass of the loop over the table
CanonBsePass(df, p) ==
    [df EXCEPT !.rows = [i \in DOMAIN df.rows |->
                            CanonBsePassRow(df.rows[i], p.canonical, p.aliases)]]

\* every pass of the loop, one row
CanonBseRow(r) ==
    CanonBsePassRow(CanonBsePassRow(r, BSE_SYMBOL_MAP[1].canonical,
                                    BSE_SYMBOL_MAP[1].aliases),
                    BSE_SYMBOL_MAP[2].canonical, BSE_SYMBOL_MAP[2].aliases)

\* _canonicalize_bse_symbols of the intraday loader: every pass, no check
CanonicalizeBseSymbols(df) ==
    CanonBsePass(CanonBsePass(df, BSE_SYMBOL_MAP[1]), BSE_SYMBOL_MAP[2])

\* bad_mask.any() of one pass of the net-position loader: df is the table the
\* mask was taken from, d the table after the assignments of the pass
BseBadInstrument(df, d, aliases) ==
    \E i \in DOMAIN df.rows :
        /\ BseMask(df.rows[i], aliases)
        /\ ~In(d.rows[i].Instrument, {"IO", "OPT", "OPTIDX", "FUT", "FUTIDX"})

\* the loop of the net-position _canonicalize_bse_symbols from pass k on: a
\* pass that finds a bad instrument raises, and the later passes do not run
RECURSIVE NetCanonicalizeBseFrom(_, _)
NetCanonicalizeBseFrom(df, k) ==
    IF k > Len(BSE_SYMBOL_MAP) THEN [err |-> "ok", df |-> df]
    ELSE LET d == CanonBsePass(df, BSE_SYMBOL_MAP[k])
         IN  IF BseBadInstrument(df, d, BSE_SYMBOL_MAP[k].aliases)
             THEN [err |-> "LoadError", df |-> d]
             ELSE NetCanonicalizeBseFrom(d, k + 1)

\* _canonicalize_bse_symbols of the net-position loader: the exception it ends
\* with and the table it leaves
NetCanonicalizeBseSymbols(df) == NetCanonicalizeBseFrom(df, 1)

\* _canonicalize_equity_instruments of the net-position loader, one row
NetCanonEqRow(r) ==
    IF In(r.Instrument, EQ_ALIASES)
    THEN [r EXCEPT !["Instrument"] = Str("EQ"), !["Sheet"] = Str("PORTFOLIO"),
                   !["Expiry"] = None, !["Strike"] = None, !["Opt_Type"] = None]
    ELSE r

\* _canonicalize_equity_instruments of the intraday loader, one row
IntradayCanonEqRow(r) ==
    IF In(r.Instrument, EQ_ALIASES)
    THEN [r EXCEPT !["Instrument"] = Str("EQ"),
                   !["Expiry"] = None, !["Strike"] = None, !["Opt_Type"] = None]
    ELSE r

\* the assignments of _canonicalize_equity_instruments
NetCanonicalizeEquity(df) ==
    [df EXCEPT !.rows = [i \in DOMAIN df.rows |-> NetCanonEqRow(df.rows[i])]]

IntradayCanonicalizeEquity(df) ==
    [df EXCEPT !.rows = [i \in DOMAIN df.rows |-> IntradayCanonEqRow(df.rows[i])]]

\* the `bad` check that ends the net-position _canonicalize_equity_instruments
UnknownInstrument(df) ==
    IF \E i \in DOMAIN df.rows : ~In(df.rows[i].Instrument, ALLOWED_INSTRUMENTS)
    THEN "LoadError" ELSE "ok"

---------------------------------------------------------------------------
(* Net-position numeric validation *)

\* price < 0 or round(price, 3) != price, for price = float(cell) that parsed
BadDecimal(p, allowNegative) ==
    \/ p.nan
    \/ (~allowNegative /\ p.v < 0)
    \/ Round3(p.v) # p.v

\* _validate_numeric_fields, one row
NumericFieldsRow(r) ==
    IF ~PyInt(r.Net_Qty).ok THEN "LoadError"
    ELSE IF ~PyFloat(r.Avg_Price).ok THEN "ValueError"
    ELSE IF BadDecimal(PyFloat(r.Avg_Price), FALSE) THEN "LoadError"
    ELSE IF Truthy(r.Strike) /\ r.Strike # Str("nan")
    THEN (IF ~PyFloat(r.Strike).ok THEN "ValueError"
          ELSE IF BadDecimal(PyFloat(r.Strike), TRUE) THEN "LoadError"
          ELSE "ok")
    ELSE "ok"

ValidateNumericFields(df) ==
    FirstError([i \in DOMAIN df.rows |-> NumericFieldsRow(df.rows[i])])


---------------------------------------------------------------------------
(* Net-position snapshot merge *)

\* the business key of _merge_duplicates
KEYS ==
    <<"Broker_Id", "Sheet", "Strategy", "Exchange", "Instrument", "Symbol",
      "Expiry", "Strike", "Opt_Type">>

\* the str values a key column can hold when the merge runs, in the order of
\* Python's str comparison (by code point)
CodepointOrder ==
    <<Str(""), IntText(100), DecText(1005000), DateText(25, "Jan", 2024),
      Str("ARB"), Str("B1"), Str("BANKEX"), Str("BKX"), Str("BKXOPT"),
      Str("BSE"), Str("BSX"), Str("BSXOPT"), Str("CE"), Str("D1"), Str("D2"),
      Str("EQ"), Str("FUT"), Str("FUTIDX"), Str("FUTSTK"), Str("NAN"), Str("NSE"),
      Str("OPT"), Str("OPTIDX"), Str("OPTSTK"), Str("PORTFOLIO"), Str("RELIANCE"),
      Str("SENSEX"), Str("nan")>>

\* position of a key value in the sort of groupby(sort=True, dropna=False):
\* str values by code point, null values last
SortRank(c) ==
    IF IsNa(c) THEN Len(CodepointOrder) + 1
    ELSE CHOOSE i \in DOMAIN CodepointOrder : CodepointOrder[i] = c

KeyOf(r) == [i \in DOMAIN KEYS |-> r[KEYS[i]]]

\* lexicographic order of two keys
KeyLess(a, b) ==
    \E i \in DOMAIN KEYS :
        /\ SortRank(a[i]) < SortRank(b[i])
        /\ \A j \in DOMAIN KEYS : j < i => a[j] = b[j]

\* the keys of K in ascending order
RECURSIVE SortedKeys(_)
SortedKeys(K) ==
    IF K = {} THEN <<>>
    ELSE LET m == CHOOSE a \in K : \A b \in K \ {a} : KeyLess(a, b)
         IN  <<m>> \o SortedKeys(K \ {m})

\* the rows of one group, in file order
GroupRows(rows, key) == SelectSeq(rows, LAMBDA r : KeyOf(r) = key)

RECURSIVE SumSeq(_)
SumSeq(q) == IF q = <<>> THEN 0 ELSE Head(q) + SumSeq(Tail(q))

\* g["Net_Qty"].astype(int).sum()
GroupQty(g) == SumSeq([i \in DOMAIN g |-> PyInt(g[i].Net_Qty).v])

\* Series.sum() of float64 values: the values added one by one, first to last
RECURSIVE FSum(_, _)
FSum(acc, xs) == IF xs = <<>> THEN acc ELSE FSum(FAdd(acc, Head(xs)), Tail(xs))

\* (g["Net_Qty"].astype(int) * g["Avg_Price"].astype(float)).sum(), a float64
GroupNotional(g) ==
    FSum(FZero, [i \in DOMAIN g |->
                    FMulInt(Dbl(PyFloat(g[i].Avg_Price).v), PyInt(g[i].Net_Qty).v)])

\* the plain mean of the prices of the group in place of the weighted one
VwapUnweighted(g) ==
    Milli * NpRound(FDivInt(FSum(FZero, [i \in DOMAIN g |->
                                            Dbl(PyFloat(g[i].Avg_Price).v)]),
                            Len(g)))

\* round(vwap, 3) of the merged row, vwap a numpy.float64; result in 1/Scale
Vwap(g) == Milli * NpRound(FDivInt(GroupNotional(g), GroupQty(g)))

\* the group loop with a zero-sum group netted away instead of kept
MergeGroupDropZero(g) ==
    IF Len(g) = 1 THEN g
    ELSE IF GroupQty(g) = 0 THEN <<>>
    ELSE <<[g[1] EXCEPT !["Net_Qty"] = IntV(GroupQty(g)),
                        !["Avg_Price"] = FloatV(Vwap(g))]>>

\* the body of the group loop of _merge_duplicates: the rows one group appends
MergeGroup(g) ==
    IF Len(g) = 1 THEN g
    ELSE IF GroupQty(g) = 0 THEN g
    ELSE <<[g[1] EXCEPT !["Net_Qty"] = IntV(GroupQty(g)),
                        !["Avg_Price"] = FloatV(Vwap(g))]>>

RECURSIVE ConcatGroups(_, _)
ConcatGroups(rows, keys) ==
    IF keys = <<>> THEN <<>>
    ELSE MergeGroup(GroupRows(rows, Head(keys))) \o ConcatGroups(rows, Tail(keys))

\* _merge_duplicates with groupby's default dropna=True: a key with a null
\* field forms no group
MergeDuplicatesDropNa(df) ==
    [cols |-> df.cols,
     rows |-> ConcatGroups(df.rows,
                           SortedKeys({k \in {KeyOf(df.rows[i]) : i \in DOMAIN df.rows} :
                                          \A j \in DOMAIN k : ~IsNa(k[j])}))]

\* _merge_duplicates
MergeDuplicates(df) ==
    [cols |-> df.cols,
     rows |-> ConcatGroups(df.rows,
                           SortedKeys({KeyOf(df.rows[i]) : i \in DOMAIN df.rows}))]

---------------------------------------------------------------------------
(* Contract completeness *)

\* _final_shape_validation, one row
FinalShapeRow(r) ==
    IF r.Instrument = Str("EQ")
       /\ (Truthy(r.Expiry) \/ Truthy(r.Strike) \/ Truthy(r.Opt_Type))
    THEN "LoadError"
    ELSE IF In(r.Instrument, {"FUT", "FUTIDX", "FUTSTK"}) /\ ~Truthy(r.Expiry)
    THEN "LoadError"
    ELSE IF In(r.Instrument, {"OPT", "OPTIDX", "OPTSTK"})
            /\ ~(Truthy(r.Expiry) /\ Truthy(r.Strike) /\ Truthy(r.Opt_Type))
    THEN "LoadError"
    ELSE "ok"

FinalShapeValidation(df) ==
    FirstError([i \in DOMAIN df.rows |-> FinalShapeRow(df.rows[i])])

\* _validate_expiry_strike_opt_type of the intraday loader, one row
ExpiryStrikeOptTypeRow(r) ==
    IF r.Instrument = Str("EQ") THEN "ok"
    ELSE IF r.Instrument.k = "str" /\ StartsWith(r.Instrument.s, "FUT")
    THEN (IF ~Truthy(r.Expiry) THEN "LoadError" ELSE "ok")
    ELSE IF r.Instrument.k = "str" /\ StartsWith(r.Instrument.s, "OPT")
    THEN (IF ~(Truthy(r.Expiry) /\ Truthy(r.Strike) /\ Truthy(r.Opt_Type))
          THEN "LoadError" ELSE "ok")
    ELSE "ok"

ValidateExpiryStrikeOptType(df) ==
    FirstError([i \in DOMAIN df.rows |-> ExpiryStrikeOptTypeRow(df.rows[i])])

---------------------------------------------------------------------------
(* Intraday quantities and rates *)

NULL_STRINGS == {"", "nan", "none", "null"}

\* str(v).lower() in NULL_STRINGS
IsNullString(c) == c.k = "str" /\ Lower(c.s) \in NULL_STRINGS

\* to_int: [ok, v]; not ok when float(v) raises
ToInt(c) ==
    IF IsNa(c) \/ IsNullString(c) THEN [ok |-> TRUE, v |-> 0]
    ELSE IF PyFloat(c).ok /\ ~PyFloat(c).nan
    THEN [ok |-> TRUE, v |-> TruncInt(PyFloat(c).v)]
    ELSE [ok |-> FALSE, v |-> 0]

\* to_float: [ok, null, v]
ToFloat(c) ==
    IF IsNa(c) \/ IsNullString(c) THEN [ok |-> TRUE, null |-> TRUE, v |-> 0]
    ELSE [ok |-> PyFloat(c).ok, null |-> FALSE, v |-> PyFloat(c).v]

\* _validate_quantities_and_rates without the Net_Qty check
QuantitiesAndRatesRowNoNetCheck(r) ==
    LET buy == ToInt(r.Buy_Qty)
        sell == ToInt(r.Sell_Qty)
        net == ToInt(r.Net_Qty)
        br == ToFloat(r.Buy_Rate)
        sr == ToFloat(r.Sell_Rate)
    IN  IF ~(buy.ok /\ sell.ok /\ net.ok) THEN "ValueError"
        ELSE IF buy.v = 0 /\ sell.v = 0 THEN "LoadError"
        ELSE IF ~br.ok \/ ~sr.ok THEN "ValueError"
        ELSE IF ~br.null /\ br.v < 0 THEN "LoadError"
        ELSE IF ~sr.null /\ sr.v < 0 THEN "LoadError"
        ELSE "ok"

\* _validate_quantities_and_rates, one row
QuantitiesAndRatesRow(r) ==
    LET buy == ToInt(r.Buy_Qty)
        sell == ToInt(r.Sell_Qty)
        net == ToInt(r.Net_Qty)
        br == ToFloat(r.Buy_Rate)
        sr == ToFloat(r.Sell_Rate)
    IN  IF ~(buy.ok /\ sell.ok /\ net.ok) THEN "ValueError"
        ELSE IF buy.v = 0 /\ sell.v = 0 THEN "LoadError"
        ELSE IF net.v # buy.v - sell.v THEN "LoadError"
        ELSE IF ~br.ok \/ ~sr.ok THEN "ValueError"
        ELSE IF ~br.null /\ br.v < 0 THEN "LoadError"
        ELSE IF ~sr.null /\ sr.v < 0 THEN "LoadError"
        ELSE "ok"

ValidateQuantitiesAndRates(df) ==
    FirstError([i \in DOMAIN df.rows |-> QuantitiesAndRatesRow(df.rows[i])])


---------------------------------------------------------------------------
(* Records and the store *)

\* CSV_TO_DB_COLS
DbName(c) ==
    CASE c = "Broker_Id" -> "broker_id"
      [] c = "Sheet" -> "sheet"
      [] c = "Strategy" -> "strategy"
      [] c = "Exchange" -> "exchange"
      [] c = "Instrument" -> "instrument_type"
      [] c = "Symbol" -> "symbol"
      [] c = "Expiry" -> "expiry"
      [] c = "Strike" -> "strike"
      [] c = "Opt_Type" -> "opt_type"
      [] c = "Net_Qty" -> "net_qty"
      [] c = "Avg_Price" -> "avg_price"
      [] c = "Carry_Date" -> "carry_date"
      [] c = "Buy_Qty" -> "buy_qty"
      [] c = "Buy_Rate" -> "buy_rate"
      [] c = "Sell_Qty" -> "sell_qty"
      [] c = "Sell_Rate" -> "sell_rate"
      [] c = "Trade_Date" -> "trade_date"
      [] OTHER -> c

\* df.rename(columns=CSV_TO_DB_COLS).to_dict("records"), one row
RenameRow(r) ==
    [k \in {DbName(c) : c \in DOMAIN r} |-> r[CHOOSE c \in DOMAIN r : DbName(c) = k]]

\* _to_db_records of the net-position loader
NetToDbRecords(df) == [i \in DOMAIN df.rows |-> RenameRow(df.rows[i])]

\* _to_db_records of the intraday loader: pd.isna(v) becomes None
IntradayToDbRecords(df) ==
    [i \in DOMAIN df.rows |->
        [k \in DOMAIN RenameRow(df.rows[i]) |->
            IF IsNa(RenameRow(df.rows[i])[k]) THEN None
            ELSE RenameRow(df.rows[i])[k]]]

\* what the store client does with a write: it returns a response without an
\* error, returns a response whose error attribute is set, or raises
StoreReplies == {"ok", "error", "raised"}

\* _upsert_to_db after execute(): the exception it ends with
UpsertOutcome(reply) ==
    CASE reply = "raised" -> "StoreError"
      [] reply = "error" -> "LoadError"
      [] OTHER -> "ok"

\* _insert_to_db after execute(): the response is not looked at
InsertOutcome(reply) ==
    CASE reply = "raised" -> "StoreError"
      [] OTHER -> "ok"

\* the emitted records written out as a CSV file with the loader's column names
\* (DataFrame(records).to_csv): a missing value is an empty cell, a number its text
CsvCell(c) ==
    CASE IsNa(c) -> Str("")
      [] c.k = "int" -> IntText(c.n)
      [] c.k = "float" -> DecText(c.n)
      [] OTHER -> c

RecordsToCsv(recs, cols) ==
    [cols |-> cols,
     rows |-> [i \in DOMAIN recs |-> [c \in cols |-> CsvCell(recs[i][DbName(c)])]]]

---------------------------------------------------------------------------
(* The stages of load, in the order load calls them *)

NetPipeline ==
    <<"read_csv", "validate_required_columns", "basic_normalization",
      "validate_carry_date", "validate_exchange", "validate_expiry_format",
      "canonicalize_bse_symbols", "canonicalize_equity_instruments",
      "validate_numeric_fields", "merge_duplicates", "final_shape_validation",
      "to_db_records", "upsert_to_db">>

IntradayPipeline ==
    <<"read_csv", "validate_required_columns", "basic_normalization",
      "validate_trade_date", "validate_exchange", "canonicalize_bse_symbols",
      "canonicalize_equity_instruments", "validate_expiry_strike_opt_type",
      "validate_quantities_and_rates", "to_db_records", "insert_to_db">>

PipelineOf(p) == IF p = "net" THEN NetPipeline ELSE IntradayPipeline

\* After, with load going from the merge straight to the records
AfterWithoutFinalShape(p, st) ==
    LET i == CHOOSE j \in DOMAIN PipelineOf(p) : PipelineOf(p)[j] = st
    IN  IF i = Len(PipelineOf(p)) THEN "done"
        ELSE IF st = "merge_duplicates" THEN "to_db_records"
        ELSE PipelineOf(p)[i + 1]

\* the stage load runs after stage st returns ("done": load returns)
After(p, st) ==
    LET i == CHOOSE j \in DOMAIN PipelineOf(p) : PipelineOf(p)[j] = st
    IN  IF i = Len(PipelineOf(p)) THEN "done" ELSE PipelineOf(p)[i + 1]


---------------------------------------------------------------------------
(* Input files: CSV texts, cell by cell, before pandas reads them *)

NetBaseRow ==
    [Broker_Id |-> Str("B1"), Sheet |-> Str("D1"), Strategy |-> Str("ARB"),
     Exchange |-> Str("NSE"), Instrument |-> Str("FUTSTK"),
     Symbol |-> Str("RELIANCE"), Expiry |-> DateText(25, "Jan", 2024),
     Strike |-> Str(""), Opt_Type |-> Str(""), Net_Qty |-> IntText(10),
     Avg_Price |-> IntText(100), Carry_Date |-> DateText(15, "Jan", 2024)]

IntradayBaseRow ==
    [Broker_Id |-> Str("B1"), Sheet |-> Str("D1"), Strategy |-> Str("ARB"),
     Exchange |-> Str("NSE"), Instrument |-> Str("FUTSTK"),
     Symbol |-> Str("RELIANCE"), Expiry |-> DateText(25, "Jan", 2024),
     Strike |-> Str(""), Opt_Type |-> Str(""), Buy_Qty |-> IntText(5),
     Buy_Rate |-> DecText(1005000), Sell_Qty |-> IntText(2),
     Sell_Rate |-> Str(""), Net_Qty |-> IntText(3),
     Trade_Date |-> DateText(15, "Jan", 2024)]

\* row r with the cells of upd written over it
With(r, upd) == [c \in DOMAIN r |-> IF c \in DOMAIN upd THEN upd[c] ELSE r[c]]

File(rows) == [cols |-> DOMAIN rows[1], rows |-> rows]

\* one-row files, and two-row files whose first row is the valid base row
OneAndTwo(base, rows) ==
    {File(<<r>>) : r \in rows} \cup {File(<<base, r>>) : r \in rows}

ExchangeTexts == {Str("NSE"), Str("BSE"), Str(" bse"), Str("MCX")}

InstrumentTexts ==
    {Str("EQ"), Str("cash"), Str("FUT"), Str("FUTSTK"), Str("OPT"), Str("IO"),
     Str("XYZ")}

SymbolTexts ==
    {Str("RELIANCE"), Str("BSX"), Str("BSE"), Str("BSXOPT"), Str("SENSEX"),
     Str("bsx"), Str("BKX"), Str("BKXOPT"), Str("BANKEX")}

\* the instruments of the rows that vary exchange and symbol
CanonInstrumentTexts == InstrumentTexts \cup {Str("FUTIDX"), Str("OPTIDX")}

ExpiryTexts ==
    {Str(""), Str(" "), DateText(25, "Jan", 2024), DateText(31, "Feb", 2024),
     Str("2024-01-25")}

StrikeTexts ==
    {Str(""), Str(" "), IntText(100), DecText(1005000), DecText(1000005), Str("abc")}

OptTypeTexts == {Str(""), Str(" "), Str("ce")}

FileDateTexts ==
    {DateText(15, "Jan", 2024), DateText(29, "Feb", 2024), DateText(31, "Feb", 2024),
     DateText(15, "Xyz", 2024), Str("2024-01-15"), Str("")}

\* rows that vary the contract fields
ContractRows(base) ==
    {With(base, [Instrument |-> i, Expiry |-> e, Strike |-> k, Opt_Type |-> o]) :
        i \in InstrumentTexts, e \in ExpiryTexts, k \in StrikeTexts, o \in OptTypeTexts}

\* rows that vary exchange, instrument and symbol, with all or none of the
\* contract fields
CanonRows(base) ==
    {With(base, [Exchange |-> x, Instrument |-> i, Symbol |-> y,
                 Expiry |-> c[1], Strike |-> c[2], Opt_Type |-> c[3]]) :
        x \in ExchangeTexts, i \in CanonInstrumentTexts, y \in SymbolTexts,
        c \in {<<DateText(25, "Jan", 2024), IntText(100), Str("ce")>>,
               <<Str(""), Str(""), Str("")>>}}

\* files that vary the file-scoped date column col
DateFiles(base, col) ==
    {File(<<With(base, [c \in {col} |-> d])>>) : d \in FileDateTexts}
    \cup {File(<<With(base, [c \in {col} |-> d1]), With(base, [c \in {col} |-> d2])>>) :
            d1 \in FileDateTexts, d2 \in FileDateTexts}

\* files that lack one column, and the file with a header and no row
HeaderFiles(base) ==
    {[cols |-> DOMAIN base \ {x},
      rows |-> <<[c \in DOMAIN base \ {x} |-> base[c]]>>] : x \in DOMAIN base}
    \cup {[cols |-> DOMAIN base, rows |-> <<>>]}

\* net-position rows that vary the numeric cells
NetNumericRows ==
    {With(NetBaseRow, [Net_Qty |-> q, Avg_Price |-> a]) :
        q \in {IntText(10), IntText(0), DecText(5 * Scale), Str("abc"), Str("")},
        a \in {IntText(100), IntText(0), DecText(1005000), DecText(5), IntText(-1),
               Str("abc"), Str("")}}

\* positions of the merge family: <<Net_Qty, Avg_Price>>
Positions == {<<10, 100>>, <<5, 103>>, <<-10, 105>>, <<-5, 250>>}

\* contracts of the merge family: <<Instrument, Sheet, Expiry>>
MergeContracts ==
    {<<Str("FUTSTK"), Str("D1"), DateText(25, "Jan", 2024)>>,
     <<Str("EQ"), Str("D1"), Str("")>>,
     <<Str("cash"), Str("D2"), Str("")>>}

MergeRows ==
    {With(NetBaseRow, [Instrument |-> c[1], Sheet |-> c[2], Expiry |-> c[3],
                       Net_Qty |-> IntText(p[1]), Avg_Price |-> IntText(p[2])]) :
        c \in MergeContracts, p \in Positions}

\* every file of 1..MaxRows rows of the merge family
MergeFiles == {File(rows) : rows \in UNION {[1..n -> MergeRows] : n \in 1..MaxRows}}

\* positions whose average lies half-way between two thousandths:
\* <<Net_Qty, Avg_Price in 1/Scale>>
TiePositions ==
    {<<1, 10>>, <<1, 10020>>, <<1, 10010>>, <<1, 10060>>, <<-1, 10>>, <<-1, 10020>>}

TieRows ==
    {With(NetBaseRow, [Net_Qty |-> IntText(p[1]), Avg_Price |-> DecText(p[2])]) :
        p \in TiePositions}

\* the two-row files of the rows of TieRows
TieFiles == {File(<<r1, r2>>) : r1 \in TieRows, r2 \in TieRows}

\* two-row BSE files with an alias row of each index, in either order: an
\* index row the net-position loader refuses next to one it rewrites
BsePairFiles(base) ==
    LET eq(y) == With(base, [Exchange |-> Str("BSE"), Instrument |-> Str("EQ"),
                             Symbol |-> Str(y), Expiry |-> Str(""),
                             Strike |-> Str(""), Opt_Type |-> Str("")])
        fut(y) == With(base, [Exchange |-> Str("BSE"), Instrument |-> Str("FUT"),
                              Symbol |-> Str(y)])
        pairs == {<<eq("BSX"), fut("BKX")>>, <<fut("BSX"), eq("BKX")>>,
                  <<fut("BSX"), fut("BKX")>>}
    IN  {File(<<p[1], p[2]>>) : p \in pairs} \cup {File(<<p[2], p[1]>>) : p \in pairs}

NetFiles ==
    MergeFiles
    \cup TieFiles
    \cup BsePairFiles(NetBaseRow)
    \cup OneAndTwo(NetBaseRow, ContractRows(NetBaseRow) \cup CanonRows(NetBaseRow))
    \cup OneAndTwo(NetBaseRow, NetNumericRows)
    \cup DateFiles(NetBaseRow, "Carry_Date")
    \cup HeaderFiles(NetBaseRow)

\* intraday rows that vary quantities and rates
IntradayQuantityRows ==
    {With(IntradayBaseRow, [Buy_Qty |-> b, Sell_Qty |-> x, Net_Qty |-> n,
                            Buy_Rate |-> br, Sell_Rate |-> sr]) :
        b \in {Str(""), IntText(0), IntText(5), DecText(59000), Str("abc"), Str("none")},
        x \in {Str(""), IntText(0), IntText(2)},
        n \in {Str(""), IntText(3), IntText(4), IntText(5), IntText(-2)},
        br \in {Str(""), DecText(1005000), IntText(-1), Str("abc")},
        sr \in {Str(""), IntText(101)}}

IntradayFiles ==
    OneAndTwo(IntradayBaseRow,
              ContractRows(IntradayBaseRow) \cup CanonRows(IntradayBaseRow))
    \cup OneAndTwo(IntradayBaseRow, IntradayQuantityRows)
    \cup BsePairFiles(IntradayBaseRow)
    \cup DateFiles(IntradayBaseRow, "Trade_Date")
    \cup HeaderFiles(IntradayBaseRow)

FilesOf(p) == IF p = "net" THEN NetFiles ELSE IntradayFiles

---------------------------------------------------------------------------
(* State *)

VARIABLES
    pipeline,   \* the loader whose load is running: "net" or "intraday"
    run,        \* 1: the load of an input file; 2: the load of its own output
    file,       \* the CSV file given to load
    df,         \* the table load works on
    mergeIn,    \* the table _merge_duplicates was called with
    records,    \* the records _to_db_records returned
    store,      \* the writes the store client was asked for, in order
    pc,         \* the stage load runs next; "idle", "done" (load returned),
                \* "failed" (load raised)
    err,        \* the exception load ended with ("ok": none)
    trace       \* the stages of this load that returned, in order

vars == <<pipeline, run, file, df, mergeIn, records, store, pc, err, trace>>

EmptyTable == [cols |-> {}, rows |-> <<>>]

Init ==
    /\ pipeline = "none"
    /\ run = 1
    /\ file = EmptyTable
    /\ df = EmptyTable
    /\ mergeIn = EmptyTable
    /\ records = <<>>
    /\ store = <<>>
    /\ pc = "idle"
    /\ err = "ok"
    /\ trace = <<>>

\* stage st ends: with exception e it ends the load, otherwise the next stage
\* runs on table d
Finish(st, e, d) ==
    /\ pc = st
    /\ df' = d
    /\ IF e = "ok"
       THEN pc' = After(pipeline, st) /\ err' = err /\ trace' = Append(trace, st)
       ELSE pc' = "failed" /\ err' = e /\ trace' = trace
    /\ UNCHANGED <<pipeline, run, file>>

\* cli.py / run.py: load is called on a file
CallLoad ==
    /\ pc = "idle"
    /\ \E p \in {"net", "intraday"} : \E f \in FilesOf(p) :
          /\ pipeline' = p
          /\ file' = f
    /\ pc' = "read_csv"
    /\ UNCHANGED <<run, df, mergeIn, records, store, err, trace>>

\* _read_csv: the file is read, or cannot be read (the net-position loader
\* wraps that exception, the intraday loader lets it through)
ReadCsvStage ==
    /\ \/ Finish("read_csv", "ok", ReadCsv(file))
       \/ Finish("read_csv", IF pipeline = "net" THEN "LoadError" ELSE "ReadError", df)
    /\ UNCHANGED <<mergeIn, records, store>>

ValidateRequiredColumnsStage ==
    /\ Finish("validate_required_columns",
              ValidateRequiredColumns(df, IF pipeline = "net" THEN NetColumns
                                          ELSE IntradayColumns),
              df)
    /\ UNCHANGED <<mergeIn, records, store>>

BasicNormalizationStage ==
    /\ Finish("basic_normalization", "ok", BasicNormalization(df))
    /\ UNCHANGED <<mergeIn, records, store>>

ValidateCarryDateStage ==
    /\ Finish("validate_carry_date", ValidateFileDate(df, "Carry_Date"), df)
    /\ UNCHANGED <<mergeIn, records, store>>

ValidateTradeDateStage ==
    /\ Finish("validate_trade_date", ValidateFileDate(df, "Trade_Date"), df)
    /\ UNCHANGED <<mergeIn, records, store>>

ValidateExchangeStage ==
    /\ Finish("validate_exchange", ValidateExchange(df), df)
    /\ UNCHANGED <<mergeIn, records, store>>

ValidateExpiryFormatStage ==
    /\ Finish("validate_expiry_format", ValidateExpiryFormat(df), df)
    /\ UNCHANGED <<mergeIn, records, store>>

\* _canonicalize_bse_symbols: only the net-position loader rejects a BSE index
\* row whose instrument is neither an option nor a future
CanonicalizeBseSymbolsStage ==
    /\ IF pipeline = "net"
       THEN Finish("canonicalize_bse_symbols", NetCanonicalizeBseSymbols(df).err,
                   NetCanonicalizeBseSymbols(df).df)
       ELSE Finish("canonicalize_bse_symbols", "ok", CanonicalizeBseSymbols(df))
    /\ UNCHANGED <<mergeIn, records, store>>

\* _canonicalize_equity_instruments: only the net-position loader sets Sheet and
\* rejects an instrument outside ALLOWED_INSTRUMENTS
CanonicalizeEquityInstrumentsStage ==
    /\ IF pipeline = "net"
       THEN Finish("canonicalize_equity_instruments",
                   UnknownInstrument(NetCanonicalizeEquity(df)),
                   NetCanonicalizeEquity(df))
       ELSE Finish("canonicalize_equity_instruments", "ok",
                   IntradayCanonicalizeEquity(df))
    /\ UNCHANGED <<mergeIn, records, store>>

ValidateNumericFieldsStage ==
    /\ Finish("validate_numeric_fields", ValidateNumericFields(df), df)
    /\ UNCHANGED <<mergeIn, records, store>>

MergeDuplicatesStage ==
    /\ Finish("merge_duplicates", "ok", MergeDuplicates(df))
    /\ mergeIn' = df
    /\ UNCHANGED <<records, store>>

FinalShapeValidationStage ==
    /\ Finish("final_shape_validation", FinalShapeValidation(df), df)
    /\ UNCHANGED <<mergeIn, records, store>>

ValidateExpiryStrikeOptTypeStage ==
    /\ Finish("validate_expiry_strike_opt_type", ValidateExpiryStrikeOptType(df), df)
    /\ UNCHANGED <<mergeIn, records, store>>

ValidateQuantitiesAndRatesStage ==
    /\ Finish("validate_quantities_and_rates", ValidateQuantitiesAndRates(df), df)
    /\ UNCHANGED <<mergeIn, records, store>>

ToDbRecordsStage ==
    /\ Finish("to_db_records", "ok", df)
    /\ records' = IF pipeline = "net" THEN NetToDbRecords(df)
                  ELSE IntradayToDbRecords(df)
    /\ UNCHANGED <<mergeIn, store>>

\* _upsert_to_db: one upsert of all records, then the check of resp.error
UpsertToDbStage ==
    \E reply \in StoreReplies :
        /\ Finish("upsert_to_db", UpsertOutcome(reply), df)
        /\ store' = Append(store, [op |-> "upsert", table |-> "net_positions",
                                   records |-> records, reply |-> reply,
                                   run |-> run])
        /\ UNCHANGED <<mergeIn, records>>

\* _insert_to_db: one insert of all records
InsertToDbStage ==
    \E reply \in StoreReplies :
        /\ Finish("insert_to_db", InsertOutcome(reply), df)
        /\ store' = Append(store, [op |-> "insert", table |-> "intraday_trades",
                                   records |-> records, reply |-> reply,
                                   run |-> run])
        /\ UNCHANGED <<mergeIn, records>>

\* the records of a net-position load that returned are written out as a CSV
\* file, and load is called on that file
ReloadOwnOutput ==
    /\ pc = "done"
    /\ pipeline = "net"
    /\ run = 1
    /\ run' = 2
    /\ file' = RecordsToCsv(records, NetColumns)
    /\ pc' = "read_csv"
    /\ trace' = <<>>
    /\ UNCHANGED <<pipeline, df, mergeIn, records, store, err>>

Next ==
    \/ CallLoad
    \/ ReadCsvStage
    \/ ValidateRequiredColumnsStage
    \/ BasicNormalizationStage
    \/ ValidateCarryDateStage
    \/ ValidateTradeDateStage
    \/ ValidateExchangeStage
    \/ ValidateExpiryFormatStage
    \/ CanonicalizeBseSymbolsStage
    \/ CanonicalizeEquityInstrumentsStage
    \/ ValidateNumericFieldsStage
    \/ MergeDuplicatesStage
    \/ FinalShapeValidationStage
    \/ ValidateExpiryStrikeOptTypeStage
    \/ ValidateQuantitiesAndRatesStage
    \/ ToDbRecordsStage
    \/ UpsertToDbStage
    \/ InsertToDbStage
    \/ ReloadOwnOutput

Spec == Init /\ [][Next]_vars


---------------------------------------------------------------------------
(* Properties *)

\* the writes of load number r
WritesOf(r) == SelectSeq(store, LAMBDA w : w.run = r)

\* the stage that raised, when load has failed
FailedStage == PipelineOf(pipeline)[Len(trace) + 1]

WriteStages == {"upsert_to_db", "insert_to_db"}

\* the stages that have to return before the store is written
StagesBeforeWrite ==
    IF pipeline = "net"
    THEN <<"read_csv", "validate_required_columns", "basic_normalization",
           "validate_carry_date", "validate_exchange", "validate_expiry_format",
           "canonicalize_bse_symbols", "canonicalize_equity_instruments",
           "validate_numeric_fields", "merge_duplicates", "final_shape_validation",
           "to_db_records">>
    ELSE <<"read_csv", "validate_required_columns", "basic_normalization",
           "validate_trade_date", "validate_exchange", "canonicalize_bse_symbols",
           "canonicalize_equity_instruments", "validate_expiry_strike_opt_type",
           "validate_quantities_and_rates", "to_db_records">>

\* C1: a load writes to the store at most once, only after every stage before
\* the write has returned without an exception; a load that a stage before the
\* write ended with an exception has written nothing.
C1_WriteOnceAfterAllStages ==
    /\ \A r \in {1, 2} : Len(WritesOf(r)) <= 1
    /\ Len(WritesOf(run)) = 1 =>
          /\ Len(trace) >= Len(StagesBeforeWrite)
          /\ SubSeq(trace, 1, Len(StagesBeforeWrite)) = StagesBeforeWrite
          /\ pc \in {"done", "failed"}
    /\ (pc = "failed" /\ FailedStage \notin WriteStages) => WritesOf(run) = <<>>
    /\ run = 1 => WritesOf(2) = <<>>

\* a net-position load and then the load of its own output have both returned,
\* each after one write
C1_Witness ==
    /\ pipeline = "net" /\ run = 2 /\ pc = "done"
    /\ Len(WritesOf(1)) = 1 /\ Len(WritesOf(2)) = 1

\* the merge has just returned: df is its result, mergeIn its argument
Merged == pipeline = "net" /\ pc = "final_shape_validation"

InKeys == {KeyOf(mergeIn.rows[i]) : i \in DOMAIN mergeIn.rows}

InGroup(key) == {i \in DOMAIN mergeIn.rows : KeyOf(mergeIn.rows[i]) = key}

OutGroup(key) == {i \in DOMAIN df.rows : KeyOf(df.rows[i]) = key}

RECURSIVE SumOver(_, _)
SumOver(S, f) ==
    IF S = {} THEN 0
    ELSE LET x == CHOOSE y \in S : TRUE IN f[x] + SumOver(S \ {x}, f)

QtyOfRow(i) == PyInt(mergeIn.rows[i].Net_Qty).v

\* the sum of Net_Qty over the input rows of a key
InQty(key) == SumOver(InGroup(key), [i \in InGroup(key) |-> QtyOfRow(i)])

\* the sum of Net_Qty * Avg_Price over the input rows of a key, in 1/Scale
InNotional(key) ==
    SumOver(InGroup(key),
            [i \in InGroup(key) |-> QtyOfRow(i) * PyFloat(mergeIn.rows[i].Avg_Price).v])

ZeroSumGroup(key) == Cardinality(InGroup(key)) > 1 /\ InQty(key) = 0

MergedGroup(key) == Cardinality(InGroup(key)) > 1 /\ InQty(key) # 0

HasNullField(key) == \E i \in DOMAIN key : IsNa(key[i])

\* C2: after the merge every business key of the input whose group is a single
\* row or has a non-zero Net_Qty sum is the key of exactly one output row, keys
\* with missing fields included, and the output has one row per such key plus
\* the rows of the zero-sum groups.
C2_OneRowPerKey ==
    Merged =>
        /\ \A key \in InKeys :
              ~ZeroSumGroup(key) => Cardinality(OutGroup(key)) = 1
        /\ Len(df.rows) =
              SumOver(InKeys, [key \in InKeys |->
                                  IF ZeroSumGroup(key)
                                  THEN Cardinality(InGroup(key)) ELSE 1])

\* the merge collapsed a group whose key has missing fields, and kept another key
C2_Witness ==
    /\ Merged
    /\ Cardinality(InKeys) = 2
    /\ \E key \in InKeys : HasNullField(key) /\ MergedGroup(key)
    /\ Len(df.rows) = 2

\* the rows of a table with a given key, in order
RowsWithKey(rows, key) == SelectSeq(rows, LAMBDA r : KeyOf(r) = key)

\* C3: the output of the merge holds every row of a zero-sum group of two or
\* more rows, each with all its fields as they were.
C3_ZeroSumPreserved ==
    Merged =>
        \A key \in InKeys :
            ZeroSumGroup(key) =>
                RowsWithKey(df.rows, key) = RowsWithKey(mergeIn.rows, key)

\* +10 @ 100 and -10 @ 105 on one key came out of the merge as two rows
C3_Witness ==
    /\ Merged
    /\ \E key \in InKeys :
          /\ ZeroSumGroup(key)
          /\ \E i, j \in InGroup(key) :
                /\ mergeIn.rows[i].Net_Qty = IntText(10)
                /\ mergeIn.rows[i].Avg_Price = IntText(100)
                /\ mergeIn.rows[j].Net_Qty = IntText(-10)
                /\ mergeIn.rows[j].Avg_Price = IntText(105)
          /\ Cardinality(OutGroup(key)) = 2

\* p (in 1/Scale) is a multiple of 0.001 nearest to num/den
NearestMilli(p, num, den) ==
    /\ p % Milli = 0
    /\ 2 * Abs(p * den - num) <= Milli * Abs(den)

FirstOf(S) == CHOOSE i \in S : \A j \in S : i <= j

\* C4: the one output row of a group of two or more rows with Net_Qty sum S # 0
\* has Net_Qty = S, Avg_Price = round(sum(Net_Qty_i * Avg_Price_i) / S, 3) and
\* every other field as in the first row of the group.
C4_MergedRow ==
    Merged =>
        \A key \in InKeys :
            MergedGroup(key) =>
                \A o \in OutGroup(key) :
                    /\ df.rows[o].Net_Qty = IntV(InQty(key))
                    /\ df.rows[o].Avg_Price.k = "float"
                    /\ NearestMilli(df.rows[o].Avg_Price.n, InNotional(key), InQty(key))
                    /\ \A c \in DOMAIN df.rows[o] \ {"Net_Qty", "Avg_Price"} :
                          df.rows[o][c] = mergeIn.rows[FirstOf(InGroup(key))][c]

\* 10 @ 100 and 5 @ 103 on one key came out of the merge as 15 @ 101.0
C4_Witness ==
    /\ Merged
    /\ \E key \in InKeys :
          /\ Cardinality(InGroup(key)) = 2
          /\ \E i, j \in InGroup(key) :
                /\ mergeIn.rows[i].Net_Qty = IntText(10)
                /\ mergeIn.rows[i].Avg_Price = IntText(100)
                /\ mergeIn.rows[j].Net_Qty = IntText(5)
                /\ mergeIn.rows[j].Avg_Price = IntText(103)
          /\ \E o \in OutGroup(key) :
                /\ df.rows[o].Net_Qty = IntV(15)
                /\ df.rows[o].Avg_Price = FloatV(101 * Scale)


\* the stage st of this load has returned
Returned(st) == \E i \in DOMAIN trace : trace[i] = st

\* C5: the load of the output of a net-position load that returned gets through
\* every stage between reading the file and the write again, merges no group,
\* and emits the rows it was given.
C5_Idempotent ==
    (pipeline = "net" /\ run = 2) =>
        /\ pc = "failed" => FailedStage \in WriteStages \cup {"read_csv"}
        /\ pc = "final_shape_validation" => df.rows = mergeIn.rows
        /\ Returned("to_db_records") => RecordsToCsv(records, NetColumns) = file

\* every avg_price the net-position loader has handed to the store is a number
\* >= 0 with at most 3 decimals
NonNegativePrice(c) ==
    /\ PyFloat(c).ok
    /\ ~PyFloat(c).nan
    /\ PyFloat(c).v >= 0
    /\ PyFloat(c).v % Milli = 0

\* C6: every record of a net-position write has avg_price >= 0 with at most 3
\* decimal places, rows produced by a merge included.
C6_AvgPriceNonNegative ==
    \A w \in DOMAIN store :
        store[w].op = "upsert" =>
            \A i \in DOMAIN store[w].records :
                NonNegativePrice(store[w].records[i].avg_price)

\* the row as the canonicalizer of the running loader leaves it
Canonical(r) ==
    IF pipeline = "net" THEN NetCanonEqRow(CanonBseRow(NormalizeRow(r)))
    ELSE IntradayCanonEqRow(CanonBseRow(NormalizeRow(r)))

OPTION_FAMILY == {"OPT", "OPTIDX", "OPTSTK"}

\* the file has an option-family row whose Strike cell is empty
OptionRowWithoutStrike ==
    /\ {"Exchange", "Instrument", "Symbol", "Strike"} \subseteq file.cols
    /\ \E i \in DOMAIN file.rows :
          /\ file.rows[i].Strike = Str("")
          /\ In(Canonical(ReadCsv(file).rows[i]).Instrument, OPTION_FAMILY)

\* C7: a file with an option-family row whose Strike cell is missing or empty
\* is rejected: nothing of it is written to the store.
C7_OptionNeedsStrike ==
    (pipeline # "none" /\ OptionRowWithoutStrike) => WritesOf(run) = <<>>

DateColumn == IF pipeline = "net" THEN "Carry_Date" ELSE "Trade_Date"

\* the date column of the file holds one value, of the shape DD-Mon-YYYY, that
\* is not a calendar date
FileDateNotOnCalendar ==
    /\ DateColumn \in file.cols
    /\ file.rows # <<>>
    /\ \A i \in DOMAIN file.rows :
          /\ file.rows[i][DateColumn] = file.rows[1][DateColumn]
          /\ MatchesDateRegex(file.rows[i][DateColumn])
          /\ ~StrptimeOk(file.rows[i][DateColumn])

\* C8: a file whose date has the shape DD-Mon-YYYY but is not a calendar date
\* is rejected with the loader's own error and nothing is written.
C8_DateRejectedByLoader ==
    (pipeline # "none" /\ FileDateNotOnCalendar) =>
        /\ WritesOf(run) = <<>>
        /\ pc # "done"
        /\ pc = "failed" => (FailedStage = "read_csv" \/ err = "LoadError")

\* the quantities of an intraday row or record parse, are not both zero on the
\* buy and sell side, and net = buy - sell
QuantitiesConsistent(buy, sell, net) ==
    /\ ToInt(buy).ok /\ ToInt(sell).ok /\ ToInt(net).ok
    /\ ~(ToInt(buy).v = 0 /\ ToInt(sell).v = 0)
    /\ ToInt(net).v = ToInt(buy).v - ToInt(sell).v

\* C9: every row the intraday loader writes has buy and sell quantity not both
\* zero and net = buy - sell, the quantities parsed as the loader parses them; a
\* file with a row that breaks either rule is not written.
C9_QuantitiesConsistent ==
    /\ \A w \in DOMAIN store :
          store[w].op = "insert" =>
              \A i \in DOMAIN store[w].records :
                  QuantitiesConsistent(store[w].records[i].buy_qty,
                                       store[w].records[i].sell_qty,
                                       store[w].records[i].net_qty)
    /\ (/\ pipeline = "intraday"
        /\ IntradayColumns \subseteq file.cols
        /\ \E i \in DOMAIN file.rows :
              LET r == NormalizeRow(ReadCsv(file).rows[i])
              IN  ~QuantitiesConsistent(r.Buy_Qty, r.Sell_Qty, r.Net_Qty))
       => store = <<>>

\* an intraday file of two rows was written, one row with Buy_Qty "5.9"
C9_Witness ==
    /\ pipeline = "intraday" /\ pc = "done"
    /\ Len(store) = 1 /\ Len(store[1].records) = 2
    /\ \E i \in DOMAIN store[1].records :
          /\ store[1].records[i].buy_qty = DecText(59000)
          /\ store[1].records[i].sell_qty = IntText(2)
          /\ store[1].records[i].net_qty = IntText(3)

\* C10: a load whose write the store answered with an error does not return as
\* loaded.
C10_StoreErrorFailsLoad ==
    (\E w \in DOMAIN store : store[w].run = run /\ store[w].reply # "ok")
        => pc # "done"


\* the canonical index name of the alias sets the claim lists ("" for a symbol
\* in neither)
IndexNameOf(sym) ==
    IF In(sym, {"BSX", "BSE", "BSXOPT", "SENSEX"}) THEN "SENSEX"
    ELSE IF In(sym, {"BKX", "BKXOPT", "BANKEX"}) THEN "BANKEX"
    ELSE ""

\* row r2 is what the BSE index canonicalization makes of row r
BseCanonicalized(r, r2) ==
    IF r.Exchange = Str("BSE") /\ IndexNameOf(r.Symbol) # ""
    THEN /\ r2.Symbol = Str(IndexNameOf(r.Symbol))
         /\ In(r.Instrument, {"IO", "OPT", "OPTIDX"}) => r2.Instrument = Str("OPTIDX")
         /\ In(r.Instrument, {"FUT", "FUTIDX"}) => r2.Instrument = Str("FUTIDX")
    ELSE r2.Symbol = r.Symbol /\ r2.Instrument = r.Instrument

\* C11: in both pipelines, a BSE row whose symbol is an alias of SENSEX or of
\* BANKEX leaves _canonicalize_bse_symbols with the canonical symbol, and with
\* instrument OPTIDX (from IO, OPT, OPTIDX) or FUTIDX (from FUT, FUTIDX); every
\* other row keeps its symbol and instrument.
C11_BseCanonicalization ==
    [][(pc = "canonicalize_bse_symbols" /\ pc' # "failed") =>
          /\ Len(df'.rows) = Len(df.rows)
          /\ \A i \in DOMAIN df.rows : BseCanonicalized(df.rows[i], df'.rows[i])]_vars

\* _canonicalize_bse_symbols has just returned a table in which the file's row
\* BSE / BSX / OPT is SENSEX / OPTIDX and its row NSE / RELIANCE / FUTSTK is as
\* it was
C11_Witness ==
    /\ pc = "canonicalize_equity_instruments" /\ run = 1
    /\ Len(file.rows) = 2 /\ Len(df.rows) = 2
    /\ file.rows[1].Symbol = Str("RELIANCE") /\ file.rows[1].Instrument = Str("FUTSTK")
    /\ df.rows[1].Symbol = Str("RELIANCE") /\ df.rows[1].Instrument = Str("FUTSTK")
    /\ file.rows[2].Exchange = Str("BSE") /\ file.rows[2].Symbol = Str("BSX")
    /\ file.rows[2].Instrument = Str("OPT")
    /\ df.rows[2].Symbol = Str("SENSEX") /\ df.rows[2].Instrument = Str("OPTIDX")

\* the instrument types of the data model
INSTRUMENT_TYPES == {"EQ", "FUT", "FUTIDX", "FUTSTK", "OPT", "OPTIDX", "OPTSTK"}

\* the file has a row whose instrument, canonicalized, is not an instrument type
RowOutsideInstrumentTypes ==
    /\ {"Exchange", "Instrument", "Symbol", "Sheet", "Expiry", "Strike", "Opt_Type"}
          \subseteq file.cols
    /\ \E i \in DOMAIN file.rows :
          ~In(Canonical(ReadCsv(file).rows[i]).Instrument, INSTRUMENT_TYPES)

\* C12: in both pipelines every record of every write has instrument_type in
\* {EQ, FUT, FUTIDX, FUTSTK, OPT, OPTIDX, OPTSTK}, and nothing is written of a
\* file with a row whose canonicalized instrument is outside that set.
C12_InstrumentTypeAllowed ==
    /\ \A w \in DOMAIN store : \A i \in DOMAIN store[w].records :
          In(store[w].records[i].instrument_type, INSTRUMENT_TYPES)
    /\ (pipeline # "none" /\ RowOutsideInstrumentTypes) => WritesOf(run) = <<>>

\* the CSV cell of column c behind row i of the records of write w was empty:
\* the intraday loader emits the rows of the file in order; the net-position
\* loader groups and sorts them, so there the column is empty in every row
CellWasEmpty(w, i, c) ==
    IF store[w].op = "insert"
    THEN Len(file.rows) = Len(store[w].records) /\ file.rows[i][c] = Str("")
    ELSE \A j \in DOMAIN file.rows : file.rows[j][c] = Str("")

\* the text the string normalization makes of a missing value
PLACEHOLDERS == {Str("nan"), Str("NAN")}

\* C13: in both pipelines, every emitted record holds the null marker in each
\* field whose CSV cell was empty, and no field holds the text "nan" / "NAN"
\* that string normalization makes of a missing value.
C13_EmptyCellsEmittedAsNull ==
    \A w \in DOMAIN store :
        store[w].run = run =>
            \A i \in DOMAIN store[w].records : \A c \in file.cols :
                /\ CellWasEmpty(w, i, c) => store[w].records[i][DbName(c)] = None
                /\ store[w].records[i][DbName(c)] \notin PLACEHOLDERS

=============================================================================
